---- MODULE Spec2Model ----
(***************************************************************************)
(* Biogas MQTT -> Supabase bridge (yagura098/biokontrol-backend).          *)
(*                                                                         *)
(* The ingestion pipeline (message handler, processSensorData,             *)
(* processControlData, processPhCalibrationResponse and the insert/query   *)
(* helpers) and the pH calibration endpoint, as state machines over the    *)
(* process-wide variables currentSensorId, isWarmupActive and              *)
(* phCalibrationStatus.                                                    *)
(*                                                                         *)
(* Every `await` of an async handler is a suspension point: the part of a  *)
(* handler between two awaits is one atomic action, and the handlers of    *)
(* other messages and HTTP requests may run in between.                    *)
(*                                                                         *)
(* Numbers are integers counting units of 10^-7, so that one more decimal  *)
(* digit than the 6 kept by sanitizeFloatValue is representable.           *)
(***************************************************************************)
EXTENDS Integers, Sequences, FiniteSets, TLC

\* ------------------------------------------------------------------ bounds
\* Number of bus messages delivered in one behaviour.
MaxMsgs == 3
\* Number of POST /api/calibrate-ph requests in one behaviour.
MaxReqs == 2
\* The same, for the behaviours with one response message and no rejected
\* request.
MaxRaceReqs == 3
\* Number of calibration-response messages delivered along with them.
MaxResponses == 2
\* Number of requests in the behaviours of the calibration endpoint alone.
MaxInputReqs == 2
\* Number of bus messages in the behaviours over every topic.
MaxTopicMsgs == 2
\* Number of sensor messages in the behaviours over every field value.
MaxFieldMsgs == 2
\* Number of bus messages in the behaviours over every shape of mapping.
MaxRecordMsgs == 2
\* Number of reads of the calibration status in one behaviour.
MaxReads == 2
\* Number of bus messages next to the calibration trigger and everything
\* else that happens around it.
MaxFlagMsgs == 2
\* Number of calibrate requests in those behaviours.
MaxFlagReqs == 2
\* Number of reads of the warmup status in one behaviour.
MaxWarmupReads == 2
\* Number of control messages next to those reads.
MaxWarmupMsgs == 2
\* Number of calibrate requests answered through publishPhOffset.
MaxOffsetReqs == 2

\* --------------------------------------------------------------- JS values
\* A JavaScript value: its type tag t, its number n (units of 10^-7), its
\* characters s (strings) and its own properties f (objects).
NoProps == [k \in {} |-> 0]
Undefined == [t |-> "undefined", n |-> 0, s |-> <<>>, f |-> NoProps]
Null == [t |-> "null", n |-> 0, s |-> <<>>, f |-> NoProps]
NaN == [t |-> "nan", n |-> 0, s |-> <<>>, f |-> NoProps]
Infinity == [t |-> "infinity", n |-> 1, s |-> <<>>, f |-> NoProps]
NegInfinity == [t |-> "infinity", n |-> -1, s |-> <<>>, f |-> NoProps]
Num(x) == [t |-> "number", n |-> x, s |-> <<>>, f |-> NoProps]
Bool(b) == [t |-> "boolean", n |-> IF b THEN 1 ELSE 0, s |-> <<>>, f |-> NoProps]
Str(cs) == [t |-> "string", n |-> 0, s |-> cs, f |-> NoProps]
Obj(props) == [t |-> "object", n |-> 0, s |-> <<>>, f |-> props]

\* The empty list []: typeof [] is 'object', and it has none of the named
\* properties.
EmptyList == [t |-> "array", n |-> 0, s |-> <<>>, f |-> NoProps]

\* One whole unit (1.0) in units of 10^-7.
One == Num(10000000)

\* typeof v === 'object' && v is not null
IsObject(v) == v.t = "object"

\* ToBoolean(v)
Truthy(v) ==
  CASE v.t \in {"undefined", "null", "nan"} -> FALSE
    [] v.t = "number" -> v.n # 0
    [] v.t = "boolean" -> v.n = 1
    [] v.t = "string" -> Len(v.s) > 0
    [] OTHER -> TRUE

\* v.k can be evaluated: reading a property of null or undefined throws.
CanRead(v) == v.t \notin {"undefined", "null"}

\* v.k for a readable v: own property or undefined.
Get(v, k) == IF v.t = "object" /\ k \in DOMAIN v.f THEN v.f[k] ELSE Undefined

\* a || b
OrElse(a, b) == IF Truthy(a) THEN a ELSE b

\* ---------------------------------------------------------------- parseFloat
Digits == {"0", "1", "2", "3", "4", "5", "6", "7", "8", "9"}

DigitVal(c) ==
  CASE c = "0" -> 0 [] c = "1" -> 1 [] c = "2" -> 2 [] c = "3" -> 3
    [] c = "4" -> 4 [] c = "5" -> 5 [] c = "6" -> 6 [] c = "7" -> 7
    [] c = "8" -> 8 [] c = "9" -> 9

RECURSIVE Pow10(_)
Pow10(k) == IF k = 0 THEN 1 ELSE 10 * Pow10(k - 1)

\* Number of leading blanks of cs from position i on.
RECURSIVE SkipBlanks(_, _)
SkipBlanks(cs, i) ==
  IF i <= Len(cs) /\ cs[i] = " " THEN SkipBlanks(cs, i + 1) ELSE i

\* Number of consecutive digits of cs from position i on.
RECURSIVE DigitRun(_, _)
DigitRun(cs, i) ==
  IF i <= Len(cs) /\ cs[i] \in Digits THEN 1 + DigitRun(cs, i + 1) ELSE 0

\* The decimal number written by the k digits of cs from position i on.
RECURSIVE DigitsValue(_, _, _)
DigitsValue(cs, i, k) ==
  IF k = 0 THEN 0
  ELSE DigitsValue(cs, i, k - 1) * 10 + DigitVal(cs[i + k - 1])

\* cs has the characters of word at position i.
HasWordAt(cs, i, word) ==
  /\ i + Len(word) - 1 <= Len(cs)
  /\ \A j \in 1..Len(word) : cs[i + j - 1] = word[j]

\* parseFloat of a string: blanks, sign, then "Infinity" or the longest
\* decimal literal digits[.digits] | .digits; anything else is NaN.
\* Fraction digits beyond the 7th are below the model's resolution.
ParseString(cs) ==
  LET i0 == SkipBlanks(cs, 1)
      neg == i0 <= Len(cs) /\ cs[i0] = "-"
      i1 == IF i0 <= Len(cs) /\ cs[i0] \in {"-", "+"} THEN i0 + 1 ELSE i0
      ni == DigitRun(cs, i1)
      dot == i1 + ni <= Len(cs) /\ cs[i1 + ni] = "."
      nf == IF dot THEN DigitRun(cs, i1 + ni + 1) ELSE 0
      kept == IF nf > 7 THEN 7 ELSE nf
      mag == DigitsValue(cs, i1, ni) * Pow10(7)
             + DigitsValue(cs, i1 + ni + 1, kept) * Pow10(7 - kept)
  IN  IF HasWordAt(cs, i1, <<"I", "n", "f", "i", "n", "i", "t", "y">>)
      THEN (IF neg THEN NegInfinity ELSE Infinity)
      ELSE IF ni + nf = 0 THEN NaN
      ELSE Num(IF neg THEN -mag ELSE mag)

\* parseFloat(v): ToString(v) parsed; a number parses to itself.
ParseFloat(v) ==
  CASE v.t \in {"number", "infinity", "nan"} -> v
    [] v.t = "string" -> ParseString(v.s)
    [] OTHER -> NaN

\* isNaN of a number value
IsNaN(v) == v.t = "nan"

\* a - b on number values
Minus(a, b) ==
  CASE a.t = "nan" \/ b.t = "nan" -> NaN
    [] a.t = "infinity" /\ b.t = "infinity" ->
         IF a.n = b.n THEN NaN ELSE a
    [] a.t = "infinity" -> a
    [] b.t = "infinity" -> IF b.n = 1 THEN NegInfinity ELSE Infinity
    [] OTHER -> Num(a.n - b.n)

\* Math.round(x * 1000000) / 1000000: x * 10^6 is x.n / 10, rounded half up.
Round6(x) ==
  IF x.t = "number" THEN Num(((x.n + 5) \div 10) * 10) ELSE x

\* ------------------------------------------------------------- validator
\* sanitizeFloatValue returning the parsed value as it is.
sanitizeFloatValueUnrounded(value) ==
  IF value.t \in {"null", "undefined"} THEN Num(0)
  ELSE LET parsed == ParseFloat(value)
       IN  IF IsNaN(parsed) THEN Num(0) ELSE parsed

\* sanitizeFloatValue dividing by 100000 after rounding: the result is ten
\* times the rounded value.
sanitizeFloatValueWrongDivisor(value) ==
  IF value.t \in {"null", "undefined"} THEN Num(0)
  ELSE LET parsed == ParseFloat(value)
       IN  IF IsNaN(parsed) THEN Num(0)
           ELSE IF parsed.t = "number" THEN Num(Round6(parsed).n * 10)
           ELSE parsed

sanitizeFloatValue(value) ==
  IF value.t \in {"null", "undefined"} THEN Num(0)
  ELSE LET parsed == ParseFloat(value)
       IN  IF IsNaN(parsed) THEN Num(0) ELSE Round6(parsed)

\* validateX throws unless its argument is a non-null object.
ValidStructure(v) == Truthy(v) /\ v.t \in {"object", "array"}

SensorFields == {"ph", "temp", "ch4", "pressure"}

\* validateSensorData copying the input's other fields into its result.
validateSensorDataSpread(sensors) ==
  [k \in SensorFields \cup DOMAIN sensors.f |->
     IF k \in SensorFields THEN sanitizeFloatValue(Get(sensors, k))
     ELSE sensors.f[k]]

validateSensorData(sensors) ==
  [ph |-> sanitizeFloatValue(Get(sensors, "ph")),
   temp |-> sanitizeFloatValue(Get(sensors, "temp")),
   ch4 |-> sanitizeFloatValue(Get(sensors, "ch4")),
   pressure |-> sanitizeFloatValue(Get(sensors, "pressure"))]

validateSensorErrors(sensorErrors) ==
  [ph_error |-> sanitizeFloatValue(Get(sensorErrors, "ph_error")),
   ph_delta_error |-> sanitizeFloatValue(Get(sensorErrors, "ph_delta_error")),
   temp_error |-> sanitizeFloatValue(Get(sensorErrors, "temp_error")),
   temp_delta_error |-> sanitizeFloatValue(Get(sensorErrors, "temp_delta_error"))]

validateActuatorData(actuators) ==
  [pump_base |-> sanitizeFloatValue(Get(actuators, "pump_base")),
   pump_acid |-> sanitizeFloatValue(Get(actuators, "pump_acid")),
   heater |-> sanitizeFloatValue(Get(actuators, "heater")),
   solenoid |-> sanitizeFloatValue(Get(actuators, "solenoid")),
   stirrer |-> sanitizeFloatValue(Get(actuators, "stirrer"))]

\* ------------------------------------------------------------------ state
VARIABLES
  connected,            \* client.connected
  isWarmupActive,       \* let isWarmupActive
  currentSensorId,      \* let currentSensorId; 0 stands for null
  phCalibrationStatus,  \* {isCalibrating, lastCalibration, pendingCalibration}
  sensorRows,           \* rows of the sensors table; ids are 1..sensorRows
  handlers,             \* one record per delivered bus message, in arrival order
  cals,                 \* one record per accepted calibrate request (its closure)
  outbox,               \* messages handed to client.publish, in order
  lastReq,              \* the latest calibrate request and its immediate answer
  subs,                 \* per topic, the subscription requested at the latest connect
  statusReply,          \* the latest answer of GET /api/calibration-status
  clientEnd,            \* how far client.end() has come
  exitedOn,             \* the signal the process exited on, "none" while it runs
  exportedWarmup,       \* isWarmupActive as the HTTP module took it from module.exports
  warmupReply,          \* the latest warmup status answered over HTTP
  offsetReqs            \* the calibrate requests answered through publishPhOffset

vars == <<connected, isWarmupActive, currentSensorId, phCalibrationStatus,
          sensorRows, handlers, cals, outbox, lastReq, subs, statusReply,
          clientEnd, exitedOn, exportedWarmup, warmupReply, offsetReqs>>

hostVars == <<clientEnd, exitedOn, exportedWarmup, warmupReply, offsetReqs>>
ingestVars == <<isWarmupActive, currentSensorId, sensorRows>>
calVars == <<phCalibrationStatus, cals, outbox, lastReq>>

\* Logical time of `new Date()`: the number of events handled so far.
Now == Len(handlers) + lastReq.n

TopicSensors == "biogas/data/sensors"
TopicControl == "biogas/data/control"
TopicResponse == "biogas/ph_calibration/response"
TopicOffset == "biogas/ph_offset"

\* ------------------------------------------------- persistence gateway calls
\* A call handed to the supabase client: sid is the row's sensor_id, warm
\* the warmup flag at the moment the call is issued, ret the id the store
\* answered with (0 while there is none).
Call(op, table, sid, rec, warm) ==
  [op |-> op, table |-> table, sid |-> sid, rec |-> rec, warm |-> warm, ret |-> 0]

NoRecord == [none |-> TRUE]

\* What the store answers to a call.
StoreResults == {"ok", "error", "exception"}

Finish(h, outcome) == [h EXCEPT !.pc = "done", !.outcome = outcome]

Issue(h, call, pc) == [h EXCEPT !.pc = pc, !.calls = Append(@, call)]

\* insertSensorData up to its await: validation, then the insert is issued.
\* A validation error is caught inside and null is returned, which the caller
\* treats as "no id".
insertSensorData(h, sensors, warm) ==
  IF ValidStructure(sensors)
  THEN Issue(h, Call("insert", "sensors", 0, validateSensorData(sensors), warm),
             "await_sensor")
  ELSE Finish([h EXCEPT !.sensorResult = "invalid"], "handled")

\* insertSensorErrors referencing the id known when the handler started.
insertSensorErrorsStaleId(h, sensorId, sensorErrors, warm) ==
  IF ValidStructure(sensorErrors)
  THEN Issue(h, Call("insert", "sensor_errors", h.idAtStart,
                     validateSensorErrors(sensorErrors), warm),
             "await_errors")
  ELSE Finish(h, "handled")

\* insertSensorErrors up to its await.
insertSensorErrors(h, sensorId, sensorErrors, warm) ==
  IF ValidStructure(sensorErrors)
  THEN Issue(h, Call("insert", "sensor_errors", sensorId,
                     validateSensorErrors(sensorErrors), warm),
             "await_errors")
  ELSE Finish(h, "handled")

\* insertActuatorData up to its await; the row carries no sensor_id.
insertActuatorData(h, sensorId, actuators, warm) ==
  IF ValidStructure(actuators)
  THEN Issue([h EXCEPT !.sensorId = sensorId],
             Call("insert", "actuators", 0, validateActuatorData(actuators), warm),
             "await_actuator")
  ELSE Finish([h EXCEPT !.sensorId = sensorId], "handled")

\* getLatestSensorId up to its await.
getLatestSensorId(h, warm) ==
  Issue(h, Call("select", "sensors", 0, NoRecord, warm), "await_query")

\* insertSensorData without its `if (error) return null`.
InsertedIdIgnoringError(r, newId) == newId

\* The id insertSensorData returns: data[0].id, or null on error or exception.
InsertedId(r, newId) == IF r = "ok" THEN newId ELSE 0

\* The id getLatestSensorId returns: data.id, or null on error, exception or
\* no data (data is 0 when the store found no row).
LatestId(r, data) == IF r = "ok" /\ data # 0 THEN data ELSE 0

\* ------------------------------------------------------- processSensorData
\* The part of processSensorData after the warmup check, up to the first await.
SensorBranches(h, warm) ==
  IF ~CanRead(h.payload) THEN Finish(h, "caught")
  ELSE IF Truthy(Get(h.payload, "sensors"))
       THEN insertSensorData(h, Get(h.payload, "sensors"), warm)
       ELSE Finish(h, "no_data")

\* processSensorData without its warmup check.
processSensorDataUngated(h, warm) == SensorBranches(h, warm)

processSensorData(h, warm) ==
  IF warm THEN Finish(h, "warmup_skip") ELSE SensorBranches(h, warm)

\* if (sensorId) currentSensorId = sensorId
SensorIdAfterInsert(sensorId, cur) == IF sensorId # 0 THEN sensorId ELSE cur

\* processSensorData issuing the sensors insert once more when it failed.
AfterSensorInsertRetrying(h, sensorId, warm) ==
  IF sensorId = 0 /\ Len(h.calls) < 2
  THEN insertSensorData(h, Get(h.payload, "sensors"), warm)
  ELSE IF sensorId # 0 /\ Truthy(Get(h.payload, "sensor_errors"))
       THEN insertSensorErrors([h EXCEPT !.sensorId = sensorId], sensorId,
                               Get(h.payload, "sensor_errors"), warm)
       ELSE Finish([h EXCEPT !.sensorId = sensorId], "handled")

\* processSensorData after `await insertSensorData(...)` returned sensorId.
AfterSensorInsert(h, sensorId, warm) ==
  IF sensorId # 0 /\ Truthy(Get(h.payload, "sensor_errors"))
  THEN insertSensorErrors([h EXCEPT !.sensorId = sensorId], sensorId,
                          Get(h.payload, "sensor_errors"), warm)
  ELSE Finish([h EXCEPT !.sensorId = sensorId], "handled")

\* ------------------------------------------------------ processControlData
\* The warmup update comparing with == instead of ===: true and "1" count as 1.
NewWarmupStatusLoose(payload, warm) ==
  IF /\ Truthy(Get(payload, "system"))
     /\ Get(Get(payload, "system"), "warmup_active") # Undefined
  THEN Get(Get(payload, "system"), "warmup_active")
         \in {One, Bool(TRUE), Str(<<"1">>)}
  ELSE warm

\* payload.system.warmup_active === 1, when payload.system carries the field.
NewWarmupStatus(payload, warm) ==
  IF /\ Truthy(Get(payload, "system"))
     /\ Get(Get(payload, "system"), "warmup_active") # Undefined
  THEN Get(Get(payload, "system"), "warmup_active") = One
  ELSE warm

\* The sensor id resolved by a query even when currentSensorId is set.
ResolveSensorIdAlwaysQuery(h, cur, warm) == getLatestSensorId(h, warm)

\* const sensorId = currentSensorId || await getLatestSensorId()
ResolveSensorId(h, cur, warm) ==
  IF cur # 0
  THEN insertActuatorData(h, cur, Get(h.payload, "actuators"), warm)
  ELSE getLatestSensorId(h, warm)

\* The part of processControlData after the warmup update and check.
ControlBranches(h, cur, warm) ==
  IF Truthy(Get(h.payload, "actuators"))
  THEN ResolveSensorId(h, cur, warm)
  ELSE Finish(h, "no_data")

\* processControlData up to its first await; warm is the updated flag.
processControlData(h, cur, warm) ==
  IF warm THEN Finish(h, "warmup_skip") ELSE ControlBranches(h, cur, warm)

\* The actuator insert without its `if (sensorId)`.
AfterLatestSensorIdUnchecked(h, sensorId, warm) ==
  insertActuatorData(h, sensorId, Get(h.payload, "actuators"), warm)

\* processControlData after `await getLatestSensorId()` returned sensorId.
AfterLatestSensorId(h, sensorId, warm) ==
  IF sensorId # 0
  THEN insertActuatorData(h, sensorId, Get(h.payload, "actuators"), warm)
  ELSE Finish(h, "no_id")

\* ------------------------------------------- processPhCalibrationResponse
Success == Str(<<"s", "u", "c", "c", "e", "s", "s">>)

\* payload.success || payload.status === 'success'
ResponseSuccess(payload) ==
  OrElse(Get(payload, "success"), Bool(Get(payload, "status") = Success))

\* phCalibrationStatus.lastCalibration = {timestamp, response, success}
LastCalibration(payload, now) ==
  Obj([timestamp |-> Num(now), response |-> payload,
       success |-> ResponseSuccess(payload)])

\* phCalibrationStatus.pendingCalibration?.field || null
PendingField(pending, k) ==
  IF CanRead(pending) THEN OrElse(Get(pending, k), Null) ELSE Null

\* logData of logPhCalibration
LogData(pending, calibrationData, now) ==
  [calibration_type |-> "ph_offset",
   offset_value |-> PendingField(pending, "offset"),
   reference_ph |-> PendingField(pending, "referencePh"),
   current_ph |-> PendingField(pending, "currentPh"),
   response_data |-> calibrationData,
   success |-> ResponseSuccess(calibrationData),
   timestamp |-> Num(now)]

\* logPhCalibration up to its await.
logPhCalibration(h, status, now, warm) ==
  Issue(h, Call("insert", "calibration_logs", 0,
                LogData(status.pendingCalibration, h.payload, now), warm),
        "await_log")

\* phCalibrationStatus after the synchronous part of
\* processPhCalibrationResponse: reading payload.success of a null payload
\* throws after isCalibrating was reset and before lastCalibration is assigned.
StatusAfterResponse(status, payload, now) ==
  IF CanRead(payload)
  THEN [status EXCEPT !.isCalibrating = FALSE,
                      !.lastCalibration = LastCalibration(payload, now)]
  ELSE [status EXCEPT !.isCalibrating = FALSE]

processPhCalibrationResponse(h, status, now, warm) ==
  IF CanRead(h.payload)
  THEN logPhCalibration(h, StatusAfterResponse(status, h.payload, now), now, warm)
  ELSE Finish(h, "caught")

\* ---------------------------------------------------- client.on('message')
\* warmAtStart and idAtStart are the warmup flag and currentSensorId when the
\* handler starts, warmChecked the flag its warmup check reads.
NewHandler(topic, wellFormed, payload, warm) ==
  [topic |-> topic, wellFormed |-> wellFormed,
   payload |-> IF wellFormed THEN payload ELSE Undefined,
   warmAtStart |-> isWarmupActive, warmChecked |-> warm,
   idAtStart |-> currentSensorId,
   pc |-> "start", sensorId |-> 0, sensorResult |-> "none",
   calls |-> <<>>, outcome |-> "running"]

\* The handler with JSON.parse outside every try: the SyntaxError leaves the
\* async listener as a rejected promise.
HandleMessageParseUncaught(h, warm) ==
  CASE ~h.wellFormed -> Finish(h, "escaped")
    [] h.topic = TopicSensors -> processSensorData(h, isWarmupActive)
    [] h.topic = TopicControl ->
         IF CanRead(h.payload)
         THEN processControlData(h, currentSensorId, warm)
         ELSE Finish(h, "caught")
    [] h.topic = TopicResponse ->
         processPhCalibrationResponse(h, phCalibrationStatus, Now + 1,
                                      isWarmupActive)
    [] OTHER -> Finish(h, "unknown_topic")

\* The handler whose switch has no default and treats every other topic as
\* the sensors topic.
HandleMessageDefaultAsSensors(h, warm) ==
  CASE ~h.wellFormed -> Finish(h, "parse_error")
    [] h.topic = TopicControl ->
         IF CanRead(h.payload)
         THEN processControlData(h, currentSensorId, warm)
         ELSE Finish(h, "caught")
    [] h.topic = TopicResponse ->
         processPhCalibrationResponse(h, phCalibrationStatus, Now + 1,
                                      isWarmupActive)
    [] OTHER -> processSensorData(h, isWarmupActive)

\* The handler up to its first await: JSON.parse inside its own try, then the
\* switch on the topic. warm is the warmup flag after the control update.
HandleMessage(h, warm) ==
  CASE ~h.wellFormed -> Finish(h, "parse_error")
    [] h.topic = TopicSensors -> processSensorData(h, isWarmupActive)
    [] h.topic = TopicControl ->
         IF CanRead(h.payload)
         THEN processControlData(h, currentSensorId, warm)
         ELSE Finish(h, "caught")
    [] h.topic = TopicResponse ->
         processPhCalibrationResponse(h, phCalibrationStatus, Now + 1,
                                      isWarmupActive)
    [] OTHER -> Finish(h, "unknown_topic")

\* A message is delivered: the handler runs up to its first await.
OnMessage(topic, wellFormed, payload) ==
  /\ connected
  /\ Len(handlers) < MaxMsgs
  /\ LET warm == IF wellFormed /\ topic = TopicControl /\ CanRead(payload)
                 THEN NewWarmupStatus(payload, isWarmupActive)
                 ELSE isWarmupActive
         h == NewHandler(topic, wellFormed, payload, warm)
         answered == wellFormed /\ topic = TopicResponse
     IN  /\ isWarmupActive' = warm
         /\ handlers' = Append(handlers, HandleMessage(h, warm))
         /\ phCalibrationStatus' =
              IF answered
              THEN StatusAfterResponse(phCalibrationStatus, payload, Now + 1)
              ELSE phCalibrationStatus
         /\ cals' = IF answered
                    THEN [i \in DOMAIN cals |-> [cals[i] EXCEPT !.answered = TRUE]]
                    ELSE cals
  /\ UNCHANGED <<connected, subs, statusReply, hostVars, currentSensorId, sensorRows, outbox, lastReq>>

Replace(i, h) == [handlers EXCEPT ![i] = h]

\* The sensors insert of handler i returns r.
SensorInsertReturn(i, r) ==
  /\ i \in DOMAIN handlers
  /\ handlers[i].pc = "await_sensor"
  /\ LET newId == sensorRows + 1
         sensorId == InsertedId(r, newId)
     IN  /\ sensorRows' = IF r = "ok" THEN newId ELSE sensorRows
         /\ currentSensorId' = SensorIdAfterInsert(sensorId, currentSensorId)
         /\ handlers' = Replace(i, AfterSensorInsert(
                          [handlers[i] EXCEPT !.sensorResult = r,
                                              !.calls[1].ret = IF r = "ok" THEN newId ELSE 0],
                          sensorId, isWarmupActive))
  /\ UNCHANGED <<connected, subs, statusReply, hostVars, isWarmupActive, calVars>>

\* The latest-id query of handler i returns r.
LatestSensorIdReturn(i, r) ==
  /\ i \in DOMAIN handlers
  /\ handlers[i].pc = "await_query"
  /\ LET data == IF r = "ok" THEN sensorRows ELSE 0
     IN  handlers' = Replace(i, AfterLatestSensorId(
                         [handlers[i] EXCEPT !.calls[1].ret = data],
                         LatestId(r, data), isWarmupActive))
  /\ UNCHANGED <<connected, subs, statusReply, hostVars, ingestVars, calVars>>

\* An insert whose result is only logged returns r: the handler ends.
InsertReturn(i, pc) ==
  /\ i \in DOMAIN handlers
  /\ handlers[i].pc = pc
  /\ handlers' = Replace(i, Finish(handlers[i], "handled"))
  /\ UNCHANGED <<connected, subs, statusReply, hostVars, ingestVars, calVars>>

SensorErrorsInsertReturn(i, r) == InsertReturn(i, "await_errors")

ActuatorInsertReturn(i, r) == InsertReturn(i, "await_actuator")

\* The calibration_logs insert whose failure undoes the recorded response.
CalibrationLogInsertReturnUndoing(i, r) ==
  /\ i \in DOMAIN handlers
  /\ handlers[i].pc = "await_log"
  /\ handlers' = Replace(i, Finish(handlers[i],
                                   IF r = "ok" THEN "handled" ELSE "log_failed"))
  /\ phCalibrationStatus' =
       IF r = "ok" THEN phCalibrationStatus
       ELSE [phCalibrationStatus EXCEPT !.lastCalibration = Null]
  /\ UNCHANGED <<connected, subs, statusReply, hostVars, ingestVars, cals, outbox, lastReq>>

\* The calibration_logs insert of handler i returns r: an error or an
\* exception is only warned about (outcome "log_failed").
CalibrationLogInsertReturn(i, r) ==
  /\ i \in DOMAIN handlers
  /\ handlers[i].pc = "await_log"
  /\ handlers' = Replace(i, Finish(handlers[i],
                                   IF r = "ok" THEN "handled" ELSE "log_failed"))
  /\ UNCHANGED <<connected, subs, statusReply, hostVars, ingestVars, calVars>>

\* ------------------------------------------------ POST /api/calibrate-ph
\* The status the request is answered with before anything is published;
\* 0 when every check passes.
CalibrateCheck(referencePh, currentPh, conn, calibrating) ==
  IF ~Truthy(referencePh) \/ ~Truthy(currentPh) THEN 400
  ELSE IF IsNaN(ParseFloat(referencePh)) \/ IsNaN(ParseFloat(currentPh)) THEN 400
  ELSE IF ~conn THEN 503
  ELSE IF calibrating THEN 409
  ELSE 0

\* The offset without sanitizeFloatValue.
OffsetUnrounded(refPh, curPh) == Minus(refPh, curPh)

\* const offset = sanitizeFloatValue(refPh - curPh, 'pH offset')
Offset(refPh, curPh) == sanitizeFloatValue(Minus(refPh, curPh))

\* phCalibrationStatus.pendingCalibration = {referencePh, currentPh, offset, timestamp}
PendingCalibration(refPh, curPh, offset, now) ==
  Obj([referencePh |-> refPh, currentPh |-> curPh, offset |-> offset,
       timestamp |-> Num(now)])

\* client.publish('biogas/ph_offset', JSON.stringify(calibrationPayload), {qos: 1}, cb)
OffsetPublish(refPh, curPh, offset, now) ==
  [topic |-> TopicOffset, qos |-> 1,
   payload |-> Obj([offset |-> offset, reference_ph |-> refPh,
                    current_ph |-> curPh, timestamp |-> Num(now)])]

\* The request handler up to the publish; an accepted request leaves its
\* closure (refPh, curPh, offset) waiting for the publish callback.
Calibrate(referencePh, currentPh) ==
  /\ LET st == CalibrateCheck(referencePh, currentPh, connected,
                              phCalibrationStatus.isCalibrating)
         refPh == ParseFloat(referencePh)
         curPh == ParseFloat(currentPh)
         offset == Offset(refPh, curPh)
     IN  /\ lastReq' = [n |-> lastReq.n + 1, referencePh |-> referencePh,
                        currentPh |-> currentPh, status |-> st]
         /\ IF st = 0
            THEN /\ phCalibrationStatus' =
                      [phCalibrationStatus EXCEPT
                         !.isCalibrating = TRUE,
                         !.pendingCalibration =
                            PendingCalibration(refPh, curPh, offset, Now + 1)]
                 /\ outbox' = Append(outbox,
                                     OffsetPublish(refPh, curPh, offset, Now + 1))
                 /\ cals' = Append(cals,
                      [n |-> lastReq.n + 1, refPh |-> refPh, curPh |-> curPh,
                       offset |-> offset, pub |-> "sent", status |-> 0,
                       data |-> Null, answered |-> FALSE])
            ELSE UNCHANGED <<phCalibrationStatus, outbox, cals>>
  /\ UNCHANGED <<connected, subs, statusReply, hostVars, ingestVars, handlers>>

\* res.json({success: true, data: {referencePh, currentPh, offset, timestamp}})
SuccessData(c) ==
  Obj([referencePh |-> c.refPh, currentPh |-> c.curPh, offset |-> c.offset])

\* phCalibrationStatus after the publish callback got an error.
RollBack(status) ==
  [status EXCEPT !.isCalibrating = FALSE, !.pendingCalibration = Null]

\* The success callback treating the acknowledgement as the end of the
\* calibration.
PublishAckedEndsCalibration(i) ==
  /\ i \in DOMAIN cals
  /\ cals[i].pub = "sent"
  /\ cals' = [cals EXCEPT ![i].pub = "acked", ![i].status = 200,
                          ![i].data = SuccessData(cals[i])]
  /\ phCalibrationStatus' = RollBack(phCalibrationStatus)
  /\ UNCHANGED <<connected, subs, statusReply, hostVars, ingestVars, handlers, outbox, lastReq>>

\* The publish callback of accepted request i runs without error.
PublishAcked(i) ==
  /\ i \in DOMAIN cals
  /\ cals[i].pub = "sent"
  /\ cals' = [cals EXCEPT ![i].pub = "acked", ![i].status = 200,
                          ![i].data = SuccessData(cals[i])]
  /\ UNCHANGED <<connected, subs, statusReply, hostVars, ingestVars, handlers, phCalibrationStatus, outbox, lastReq>>

\* The publish callback of accepted request i runs with an error.
PublishFailed(i) ==
  /\ i \in DOMAIN cals
  /\ cals[i].pub = "sent"
  /\ phCalibrationStatus' = RollBack(phCalibrationStatus)
  /\ cals' = [cals EXCEPT ![i].pub = "failed", ![i].status = 500]
  /\ UNCHANGED <<connected, subs, statusReply, hostVars, ingestVars, handlers, outbox, lastReq>>

\* ------------------------------------------------------------- connection
\* The topics subscribed to on connect.
RequiredTopics == {TopicSensors, TopicControl, TopicResponse}

\* The connect handler of the variant without calibration responses: two
\* topics.
ConnectTwoTopics ==
  /\ ~connected
  /\ connected' = TRUE
  /\ subs' = [t \in RequiredTopics |->
               IF t = TopicResponse THEN subs[t] ELSE "requested"]
  /\ UNCHANGED <<ingestVars, handlers, calVars, statusReply, hostVars>>

\* client.on('connect'), fired at every (re)connection: one subscribe call
\* per topic, each with its own callback.
Connect ==
  /\ ~connected
  /\ connected' = TRUE
  /\ subs' = [t \in RequiredTopics |-> "requested"]
  /\ UNCHANGED <<ingestVars, handlers, calVars, statusReply, hostVars>>

Disconnect ==
  /\ connected
  /\ connected' = FALSE
  /\ UNCHANGED <<ingestVars, handlers, calVars, subs, statusReply, hostVars>>

\* The callback of the subscribe call for topic t runs, with or without error.
SubscribeReturn(t, ok) ==
  /\ t \in RequiredTopics
  /\ subs[t] = "requested"
  /\ subs' = [subs EXCEPT ![t] = IF ok THEN "granted" ELSE "failed"]
  /\ UNCHANGED <<connected, ingestVars, handlers, calVars, statusReply, hostVars>>

\* ------------------------------------------- GET /api/calibration-status
\* The data of the answer.
StatusData ==
  Obj([isCalibrating |-> Bool(phCalibrationStatus.isCalibrating),
       lastCalibration |-> phCalibrationStatus.lastCalibration,
       pendingCalibration |-> phCalibrationStatus.pendingCalibration,
       mqttConnected |-> Bool(connected)])

\* The route handing the pending request over and forgetting it.
GetCalibrationStatusConsuming ==
  /\ statusReply' = [n |-> statusReply.n + 1, data |-> StatusData]
  /\ phCalibrationStatus' = [phCalibrationStatus EXCEPT !.pendingCalibration = Null]
  /\ UNCHANGED <<connected, subs, ingestVars, handlers, cals, outbox, lastReq, hostVars>>

GetCalibrationStatus ==
  /\ statusReply' = [n |-> statusReply.n + 1, data |-> StatusData]
  /\ UNCHANGED <<connected, subs, ingestVars, handlers, calVars, hostVars>>

\* ------------------------------------------ process.on('SIGINT' / 'SIGTERM')
Signals == {"SIGINT", "SIGTERM"}

\* The whole signal handler: client.end() and, in the same turn,
\* process.exit(0). client.end() is called without force and without a
\* callback: it starts the close of an open connection (DISCONNECT packet,
\* then the end of the stream in a later turn of the event loop) and returns;
\* with no connection open there is nothing to close. process.exit(0) ends
\* the process before any later turn runs.
Signal(sig) ==
  /\ exitedOn = "none"
  /\ clientEnd' = IF connected THEN "requested" ELSE "completed"
  /\ exitedOn' = sig
  /\ UNCHANGED <<connected, subs, statusReply, ingestVars, handlers, calVars,
                 exportedWarmup, warmupReply, offsetReqs>>

\* ---------------------------------------------- HTTP module: warmup status
\* The routes that report the warmup status.
WarmupRoutes == {"/api/warmup-status", "/health", "/api/status", "/debug"}

\* Each of the routes answers with isWarmupActive, the constant the HTTP
\* module destructured from require('./mqttHandler') when it was loaded.
GetWarmupStatus(route) ==
  /\ route \in WarmupRoutes
  /\ warmupReply' = [n |-> warmupReply.n + 1, route |-> route,
                     warmup_active |-> exportedWarmup]
  /\ UNCHANGED <<connected, subs, statusReply, ingestVars, handlers, calVars,
                 clientEnd, exitedOn, exportedWarmup, offsetReqs>>

\* ------------------------- HTTP module: POST /api/calibrate-ph on publishPhOffset
\* The status the request is answered with before the offset is published;
\* 0 when every check passes.
OffsetCheck(referencePh, currentPh, conn) ==
  IF ~Truthy(referencePh) \/ ~Truthy(currentPh) THEN 400
  ELSE IF IsNaN(ParseFloat(referencePh)) \/ IsNaN(ParseFloat(currentPh)) THEN 400
  ELSE IF ~conn THEN 503
  ELSE 0

\* client.publish('biogas/ph_offset', JSON.stringify({ph_offset, timestamp}), {qos: 1}, cb)
publishPhOffset(offset, now) ==
  [topic |-> TopicOffset, qos |-> 1,
   payload |-> Obj([ph_offset |-> offset, timestamp |-> Num(now)])]

\* The whole request handler: publishPhOffset returns as soon as the publish
\* is handed to the client, and res.json({success: true, ...}) follows in the
\* same turn.
CalibrateViaPublishPhOffset(referencePh, currentPh) ==
  /\ LET st == OffsetCheck(referencePh, currentPh, connected)
         offset == Minus(ParseFloat(referencePh), ParseFloat(currentPh))
     IN  IF st = 0
         THEN /\ outbox' = Append(outbox, publishPhOffset(offset, Now + 1))
              /\ offsetReqs' = Append(offsetReqs,
                   [referencePh |-> referencePh, currentPh |-> currentPh,
                    offset |-> offset, pub |-> "sent", status |-> 200])
         ELSE /\ outbox' = outbox
              /\ offsetReqs' = Append(offsetReqs,
                   [referencePh |-> referencePh, currentPh |-> currentPh,
                    offset |-> Null, pub |-> "none", status |-> st])
  /\ UNCHANGED <<connected, subs, statusReply, ingestVars, handlers,
                 phCalibrationStatus, cals, lastReq,
                 clientEnd, exitedOn, exportedWarmup, warmupReply>>

\* The publish callback of publishPhOffset for request i: it logs the error
\* or the success and nothing else.
publishPhOffsetReturn(i, ok) ==
  /\ i \in DOMAIN offsetReqs
  /\ offsetReqs[i].pub = "sent"
  /\ offsetReqs' = [offsetReqs EXCEPT ![i].pub = IF ok THEN "acked" ELSE "failed"]
  /\ UNCHANGED <<connected, subs, statusReply, ingestVars, handlers, calVars,
                 clientEnd, exitedOn, exportedWarmup, warmupReply>>

\* ----------------------------------------------------------------- inputs
\* Rows the sensors table may hold when the process starts.
MaxInitRows == 1

\* {ph: 7.0000004, temp: "35.5", ch4: null}: a field to round, a numeric
\* string, a null field and a missing field.
SomeSensors ==
  Obj([ph |-> Num(70000004), temp |-> Str(<<"3", "5", ".", "5">>), ch4 |-> Null])

SomeSensorErrors == Obj([ph_error |-> Num(1000000), temp_error |-> Num(-2500000)])

SomeActuators == Obj([pump_base |-> One, heater |-> Num(0), stirrer |-> One])

\* A present field is a mapping or a scalar of the wrong shape.
SensorPayloads ==
  {Obj([sensors |-> a, sensor_errors |-> b]) :
     a \in {Undefined, SomeSensors, Num(50000000)},
     b \in {Undefined, SomeSensorErrors, Str(<<"x">>)}} \cup {Null}

ControlPayloads ==
  {Obj([system |-> a, actuators |-> b]) :
     a \in {Undefined, Obj([warmup_active |-> One]), Obj([warmup_active |-> Num(0)])},
     b \in {Undefined, SomeActuators, Num(50000000)}} \cup {Null}

ResponsePayloads ==
  {Obj([success |-> Bool(TRUE)]), Obj([status |-> Success]),
   Obj([success |-> Bool(FALSE)]), Null}

\* Request fields: missing, zero, and two pH readings (one with a 7th decimal).
CalibrateInputs == {Undefined, Num(0), Num(65000000), Num(70000004)}

\* ----------------------------------------------------------- specification
\* The state after the module is loaded, with a sensors table of `rows` rows.
InitWith(rows) ==
  /\ connected = FALSE
  /\ isWarmupActive = FALSE
  /\ currentSensorId = 0
  /\ phCalibrationStatus =
       [isCalibrating |-> FALSE, lastCalibration |-> Null, pendingCalibration |-> Null]
  /\ sensorRows = rows
  /\ handlers = <<>>
  /\ cals = <<>>
  /\ outbox = <<>>
  /\ lastReq = [n |-> 0, referencePh |-> Undefined, currentPh |-> Undefined,
                status |-> 0]
  /\ subs = [t \in RequiredTopics |-> "none"]
  /\ statusReply = [n |-> 0, data |-> Null]
  /\ clientEnd = "none"
  /\ exitedOn = "none"
  /\ exportedWarmup = FALSE
  /\ warmupReply = [n |-> 0, route |-> "none", warmup_active |-> FALSE]
  /\ offsetReqs = <<>>

\* The store may already hold rows when the process starts.
Init == \E rows \in 0..MaxInitRows : InitWith(rows)

Returns ==
  \E i \in 1..MaxMsgs, r \in StoreResults :
    \/ SensorInsertReturn(i, r)
    \/ LatestSensorIdReturn(i, r)
    \/ SensorErrorsInsertReturn(i, r)
    \/ ActuatorInsertReturn(i, r)

\* The ingestion pipeline: sensor and control messages, well-formed or not,
\* and messages on other topics.
NextIngest ==
  \/ Connect
  \/ Disconnect
  \/ \E p \in SensorPayloads, w \in BOOLEAN : OnMessage(TopicSensors, w, p)
  \/ \E p \in ControlPayloads, w \in BOOLEAN : OnMessage(TopicControl, w, p)
  \/ OnMessage("biogas/other", TRUE, Obj([sensors |-> SomeSensors]))
  \/ Returns

SpecIngest == Init /\ [][NextIngest]_vars

\* The calibration trigger: calibrate requests, publish callbacks and
\* calibration-response messages. The sensors table plays no part in it.
NextCal ==
  \/ Connect
  \/ Disconnect
  \/ /\ lastReq.n < MaxReqs
     /\ \E a \in CalibrateInputs, b \in CalibrateInputs : Calibrate(a, b)
  \/ \E i \in 1..MaxReqs : PublishAcked(i) \/ PublishFailed(i)
  \/ /\ Len(handlers) < MaxResponses
     /\ \E p \in ResponsePayloads, w \in BOOLEAN : OnMessage(TopicResponse, w, p)
  \/ \E i \in 1..MaxMsgs, r \in StoreResults : CalibrationLogInsertReturn(i, r)

SpecCal == InitWith(0) /\ [][NextCal]_vars

\* The calibration trigger under one pair of readings and one response
\* payload, for more requests.
NextRace ==
  \/ Connect
  \/ /\ lastReq.n < MaxRaceReqs
     /\ phCalibrationStatus.isCalibrating = FALSE
     /\ Calibrate(Num(70000004), Num(65000000))
  \/ \E i \in 1..MaxRaceReqs : PublishAcked(i) \/ PublishFailed(i)
  \/ /\ Len(handlers) < 1
     /\ OnMessage(TopicResponse, TRUE, Obj([success |-> Bool(TRUE)]))
  \/ \E r \in StoreResults : CalibrationLogInsertReturn(1, r)

SpecRace == InitWith(0) /\ [][NextRace]_vars

\* Request fields as a JSON body can carry them: missing, null, zero, a
\* reading, a numeric string, a word, the empty string, and a text that
\* parseFloat reads as an infinite value.
RequestFields ==
  {Undefined, Null, Num(0), Num(65000000), Str(<<"7", ".", "0">>),
   Str(<<"a", "b", "c">>), Str(<<>>),
   Str(<<"I", "n", "f", "i", "n", "i", "t", "y">>)}

\* The calibration endpoint alone, over every pair of request fields.
NextInput ==
  \/ Connect
  \/ Disconnect
  \/ /\ lastReq.n < MaxInputReqs
     /\ \E a \in RequestFields, b \in RequestFields : Calibrate(a, b)
  \/ \E i \in 1..MaxInputReqs : PublishAcked(i) \/ PublishFailed(i)

SpecInput == InitWith(0) /\ [][NextInput]_vars

\* Values a control message may carry as system.warmup_active.
WarmupValues == {One, Num(0), Bool(TRUE), Str(<<"1">>), Null}

\* Control payloads with and without the system part and the actuators part.
WarmupPayloads ==
  {Obj([system |-> Obj([warmup_active |-> v]), actuators |-> a]) :
     v \in WarmupValues, a \in {Undefined, SomeActuators}}
  \cup {Obj([actuators |-> SomeActuators])}

BothSensors == Obj([sensors |-> SomeSensors, sensor_errors |-> SomeSensorErrors])

TopicOther == "biogas/other"

\* Every inbound topic and one unrecognized topic, each with well-formed and
\* malformed messages, next to one calibrate request.
NextTopics ==
  \/ Connect
  \/ /\ Len(handlers) < MaxTopicMsgs
     /\ \/ \E t \in {TopicSensors, TopicControl, TopicResponse, TopicOther} :
             OnMessage(t, FALSE, Null)
        \/ OnMessage(TopicSensors, TRUE, BothSensors)
        \/ \E p \in WarmupPayloads : OnMessage(TopicControl, TRUE, p)
        \/ OnMessage(TopicResponse, TRUE, Obj([success |-> Bool(TRUE)]))
        \/ \E p \in {BothSensors, Obj([success |-> Bool(TRUE)]),
                      Obj([system |-> Obj([warmup_active |-> One]),
                           actuators |-> SomeActuators])} :
             OnMessage(TopicOther, TRUE, p)
  \/ Returns
  \/ \E i \in 1..MaxTopicMsgs, r \in StoreResults : CalibrationLogInsertReturn(i, r)
  \/ /\ lastReq.n < 1
     /\ Calibrate(Num(70000004), Num(65000000))
  \/ PublishAcked(1)

SpecTopics == Init /\ [][NextTopics]_vars

\* Values a payload field may hold: missing, null, true, an object, words,
\* the empty string, numbers with and without a 7th decimal, numeric strings
\* and a number followed by a unit.
FieldValues ==
  {Undefined, Null, Bool(TRUE), Obj(NoProps),
   Str(<<"a", "b", "c">>), Str(<<>>), Str(<<"-">>),
   Num(0), Num(70000004), Num(70000006), Num(-24), Num(-26), Num(355000000),
   Str(<<"3", "5", ".", "5">>), Str(<<" ", "-", ".", "5">>),
   Str(<<"7", ".", "0", "0", "0", "0", "0", "0", "6">>),
   Str(<<"3", "5", ".", "5", "C">>)}

\* Sensor messages whose ph field takes every field value.
NextFields ==
  \/ Connect
  \/ /\ Len(handlers) < MaxFieldMsgs
     /\ \E x \in FieldValues :
          OnMessage(TopicSensors, TRUE, Obj([sensors |-> Obj([ph |-> x])]))
  \/ \E i \in 1..MaxFieldMsgs, r \in StoreResults : SensorInsertReturn(i, r)

SpecFields == InitWith(0) /\ [][NextFields]_vars

\* The value of the JSON number 1e999 and a text parseFloat reads alike.
InfiniteText == Str(<<"I", "n", "f", "i", "n", "i", "t", "y">>)

\* Shapes of `sensors`: {}, a mapping with an unknown field, a mapping with
\* an infinite field, a number and a list.
RecordSensors ==
  {Obj(NoProps), Obj([ph |-> Num(70000004), humidity |-> Num(550000000)]),
   Obj([temp |-> Infinity]), Num(50000000), EmptyList}

RecordErrors ==
  {Undefined, Obj(NoProps), Obj([ph_error |-> InfiniteText, note |-> Str(<<"x">>)]),
   Str(<<"x">>), EmptyList}

RecordActuators ==
  {Obj(NoProps), Obj([heater |-> One, fan |-> One]),
   Obj([pump_acid |-> NegInfinity]), Num(50000000), Bool(TRUE), EmptyList}

\* Sensor and control messages over every shape of their mappings.
NextRecords ==
  \/ Connect
  \/ /\ Len(handlers) < MaxRecordMsgs
     /\ \/ \E a \in RecordSensors, b \in RecordErrors :
             OnMessage(TopicSensors, TRUE, Obj([sensors |-> a, sensor_errors |-> b]))
        \/ \E c \in RecordActuators :
             OnMessage(TopicControl, TRUE, Obj([actuators |-> c]))
  \/ Returns

SpecRecords == Init /\ [][NextRecords]_vars

\* The calibration trigger next to reads of its status.
NextStatus ==
  \/ NextRace
  \/ Disconnect
  \/ /\ statusReply.n < MaxReads
     /\ GetCalibrationStatus

SpecStatus == InitWith(0) /\ [][NextStatus]_vars

\* Connections, the subscriptions requested at each of them, and one sensors
\* message once its topic is subscribed.
NextConnect ==
  \/ Connect
  \/ Disconnect
  \/ \E t \in RequiredTopics, ok \in BOOLEAN : SubscribeReturn(t, ok)
  \/ /\ Len(handlers) < 1
     /\ subs[TopicSensors] = "granted"
     /\ OnMessage(TopicSensors, TRUE, BothSensors)
  \/ \E r \in StoreResults : SensorInsertReturn(1, r) \/ SensorErrorsInsertReturn(1, r)

SpecConnect == InitWith(0) /\ [][NextConnect]_vars

\* Connections, subscriptions and one sensors message until a signal ends
\* the process.
NextShutdown ==
  \/ /\ exitedOn = "none"
     /\ NextConnect
  \/ \E sig \in Signals : Signal(sig)

SpecShutdown == InitWith(0) /\ [][NextShutdown]_vars

\* The calibration trigger next to everything else the process handles:
\* rejected requests, sensors and control messages, disconnects and status
\* reads.
NextFlag ==
  \/ Connect
  \/ Disconnect
  \/ /\ lastReq.n < MaxFlagReqs
     /\ \E a \in {Undefined, Num(65000000)} : Calibrate(a, Num(65000000))
  \/ \E i \in 1..MaxFlagReqs : PublishAcked(i) \/ PublishFailed(i)
  \/ /\ Len(handlers) < MaxFlagMsgs
     /\ \/ OnMessage(TopicSensors, TRUE, BothSensors)
        \/ OnMessage(TopicControl, TRUE,
                     Obj([system |-> Obj([warmup_active |-> Num(0)]),
                          actuators |-> SomeActuators]))
        \/ OnMessage(TopicResponse, TRUE, Obj([success |-> Bool(TRUE)]))
  \/ \E i \in 1..MaxFlagMsgs :
       \/ SensorInsertReturn(i, "ok")
       \/ SensorErrorsInsertReturn(i, "ok")
       \/ LatestSensorIdReturn(i, "ok")
       \/ ActuatorInsertReturn(i, "ok")
       \/ CalibrationLogInsertReturn(i, "ok")
  \/ /\ statusReply.n < 1
     /\ GetCalibrationStatus

SpecFlag == InitWith(0) /\ [][NextFlag]_vars

\* Control messages carrying every warmup value, next to reads of the warmup
\* status over HTTP.
NextWarmup ==
  \/ Connect
  \/ /\ Len(handlers) < MaxWarmupMsgs
     /\ \E p \in WarmupPayloads : OnMessage(TopicControl, TRUE, p)
  \/ \E i \in 1..MaxWarmupMsgs, r \in StoreResults :
       LatestSensorIdReturn(i, r) \/ ActuatorInsertReturn(i, r)
  \/ /\ warmupReply.n < MaxWarmupReads
     /\ \E route \in WarmupRoutes : GetWarmupStatus(route)

SpecWarmup == Init /\ [][NextWarmup]_vars

\* The calibrate endpoint built on publishPhOffset, over every pair of
\* request fields.
NextOffset ==
  \/ Connect
  \/ Disconnect
  \/ /\ Len(offsetReqs) < MaxOffsetReqs
     /\ \E a \in RequestFields, b \in RequestFields :
          CalibrateViaPublishPhOffset(a, b)
  \/ \E i \in 1..MaxOffsetReqs, ok \in BOOLEAN : publishPhOffsetReturn(i, ok)

SpecOffset == InitWith(0) /\ [][NextOffset]_vars

Next == NextIngest \/ NextCal

Spec == Init /\ [][Next]_vars

\* ------------------------------------------------------------------ claims
\* The handler added by this step, when the step delivers a message.
Delivered == Len(handlers') = Len(handlers) + 1
NewestHandler == handlers'[Len(handlers')]

InsertsInto(h, table) ==
  {k \in DOMAIN h.calls : h.calls[k].op = "insert" /\ h.calls[k].table = table}

Queries(h) == {k \in DOMAIN h.calls : h.calls[k].op = "select"}

\* A calibration request is in flight from its acceptance until its own
\* publish fails or a response message is processed.
InFlight(c) == c.pub # "failed" /\ ~c.answered

\* C1: at most one calibration request is in flight at any time, over every
\* interleaving of calibrate requests, publish callbacks and response messages.
C1_AtMostOneInFlight ==
  Cardinality({i \in DOMAIN cals : InFlight(cals[i])}) <= 1

\* C2: no insert into sensors, sensor_errors or actuators is issued while the
\* warmup flag is true, whatever the interleaving of the handlers.
C2_NoInsertWhileWarmup ==
  \A i \in DOMAIN handlers :
    \A k \in DOMAIN handlers[i].calls :
      LET c == handlers[i].calls[k]
      IN  (c.op = "insert" /\ c.table \in {"sensors", "sensor_errors", "actuators"})
            => ~c.warm

\* C3: a sensor-topic message whose handling starts while the warmup flag is
\* true issues no persistence call at any time and leaves currentSensorId (and
\* the sensors table) as they were, whatever its payload.
C3_WarmupSensorMessageIsSkipped ==
  /\ [](\A i \in DOMAIN handlers :
          (handlers[i].topic = TopicSensors /\ handlers[i].warmAtStart)
            => handlers[i].calls = <<>> /\ handlers[i].pc = "done")
  /\ [][(Delivered /\ NewestHandler.topic = TopicSensors /\ isWarmupActive)
          => (currentSensorId' = currentSensorId /\ sensorRows' = sensorRows)]_vars

C3_Witness ==
  \E i \in DOMAIN handlers :
    /\ handlers[i].topic = TopicSensors
    /\ handlers[i].warmAtStart
    /\ handlers[i].wellFormed
    /\ CanRead(handlers[i].payload)
    /\ IsObject(Get(handlers[i].payload, "sensors"))
    /\ IsObject(Get(handlers[i].payload, "sensor_errors"))

\* A sensor-topic message carrying `sensors` and `sensor_errors` mappings,
\* handled with warmup inactive.
CarriesBoth(h) ==
  /\ h.topic = TopicSensors
  /\ h.wellFormed
  /\ ~h.warmAtStart
  /\ CanRead(h.payload)
  /\ IsObject(Get(h.payload, "sensors"))
  /\ IsObject(Get(h.payload, "sensor_errors"))

\* C4: for a sensor-topic message carrying both mappings, handled with warmup
\* inactive: one sensors insert is issued; a sensor_errors insert is issued
\* only after the sensors insert returned an id, at most once, with that id
\* as its sensor_id; and once the sensors insert has succeeded exactly one
\* sensor_errors insert has been issued.
C4_ErrorsFollowSensorInsert ==
  \A i \in DOMAIN handlers :
    LET h == handlers[i]
    IN  CarriesBoth(h) =>
          /\ InsertsInto(h, "sensors") = {1}
          /\ InsertsInto(h, "sensor_errors") \subseteq {2}
          /\ Len(h.calls) <= 2
          /\ (2 \in DOMAIN h.calls) =>
               /\ h.sensorResult = "ok"
               /\ h.calls[1].ret # 0
               /\ h.calls[2].sid = h.calls[1].ret
          /\ (h.sensorResult = "ok") => InsertsInto(h, "sensor_errors") = {2}

C4_Witness ==
  \E i \in DOMAIN handlers :
    /\ CarriesBoth(handlers[i])
    /\ handlers[i].sensorResult = "ok"
    /\ handlers[i].pc = "done"
    /\ handlers[i].idAtStart # 0
    /\ handlers[i].calls[2].sid # handlers[i].idAtStart

SensorInsertFailed(h) == h.sensorResult \in {"error", "exception", "invalid"}

\* C5: when the sensors insert of a message fails (store error, exception or
\* validation failure) no sensor_errors insert is ever issued for the message,
\* and the step in which it fails leaves currentSensorId unchanged.
C5_FailedSensorInsertStopsTheMessage ==
  /\ [](\A i \in DOMAIN handlers :
          SensorInsertFailed(handlers[i])
            => /\ InsertsInto(handlers[i], "sensor_errors") = {}
               /\ handlers[i].pc = "done")
  /\ [][\A i \in DOMAIN handlers' :
          (/\ SensorInsertFailed(handlers'[i])
           /\ (i \in DOMAIN handlers => handlers[i].sensorResult = "none"))
            => currentSensorId' = currentSensorId]_vars

C5_Witness ==
  /\ currentSensorId # 0
  /\ \E i, j \in DOMAIN handlers :
       /\ handlers[i].sensorResult \in {"error", "exception"}
       /\ IsObject(Get(handlers[i].payload, "sensor_errors"))
       /\ handlers[j].sensorResult = "invalid"
       /\ Truthy(Get(handlers[j].payload, "sensor_errors"))

\* A control-topic message carrying an `actuators` mapping, handled with
\* warmup inactive.
CarriesActuators(h) ==
  /\ h.topic = TopicControl
  /\ h.wellFormed
  /\ CanRead(h.payload)
  /\ IsObject(Get(h.payload, "actuators"))
  /\ ~h.warmChecked

\* C6: for a control-topic message with `actuators`, handled with warmup
\* inactive while currentSensorId is absent: the first call is the latest-id
\* query; no actuators insert is issued before it has returned; when it
\* yields no id none is issued at all, and when it yields an id exactly one is.
C6_QueryBeforeActuatorInsert ==
  \A i \in DOMAIN handlers :
    LET h == handlers[i]
    IN  (CarriesActuators(h) /\ h.idAtStart = 0) =>
          /\ Queries(h) = {1}
          /\ h.calls[1].table = "sensors"
          /\ (h.pc = "await_query") => Len(h.calls) = 1
          /\ (h.pc # "await_query" /\ h.calls[1].ret = 0) => Len(h.calls) = 1
          /\ (h.pc # "await_query" /\ h.calls[1].ret # 0) =>
               /\ Len(h.calls) = 2
               /\ InsertsInto(h, "actuators") = {2}

C6_Witness ==
  \E i, j \in DOMAIN handlers :
    /\ CarriesActuators(handlers[i]) /\ handlers[i].idAtStart = 0
    /\ handlers[i].pc = "done" /\ handlers[i].calls[1].ret # 0
    /\ CarriesActuators(handlers[j]) /\ handlers[j].idAtStart = 0
    /\ handlers[j].pc = "done" /\ handlers[j].calls[1].ret = 0

\* C7: when currentSensorId is present, a control-topic message with
\* `actuators` (warmup inactive) takes that id, issues no query and issues
\* exactly one actuators insert.
C7_PresentIdNeedsNoQuery ==
  \A i \in DOMAIN handlers :
    LET h == handlers[i]
    IN  (CarriesActuators(h) /\ h.idAtStart # 0) =>
          /\ Queries(h) = {}
          /\ InsertsInto(h, "actuators") = {1}
          /\ Len(h.calls) = 1
          /\ h.sensorId = h.idAtStart

C7_Witness ==
  \E i \in DOMAIN handlers :
    /\ CarriesActuators(handlers[i])
    /\ handlers[i].idAtStart # 0
    /\ handlers[i].pc = "done"

\* A request field that is present and parses as a finite number.
ValidPh(v) == CanRead(v) /\ ParseFloat(v).t = "number"

\* This step handles a calibrate request whose two fields are valid.
ValidRequest ==
  /\ lastReq'.n = lastReq.n + 1
  /\ ValidPh(lastReq'.referencePh)
  /\ ValidPh(lastReq'.currentPh)

\* C8: a calibrate request with valid inputs and a connected bus that arrives
\* while a calibration is in progress is answered 409, publishes nothing and
\* leaves isCalibrating, pendingCalibration and lastCalibration unchanged.
C8_ConflictWhileInProgress ==
  [][(ValidRequest /\ connected /\ phCalibrationStatus.isCalibrating)
       => /\ lastReq'.status = 409
          /\ outbox' = outbox
          /\ cals' = cals
          /\ phCalibrationStatus' = phCalibrationStatus]_vars

\* reference minus current, rounded half up to 6 decimals.
ExpectedOffset(c) == Num(((c.refPh.n - c.curPh.n + 5) \div 10) * 10)

\* C9: an accepted calibrate request has offset = refPh - curPh rounded to 6
\* decimals; accepting it sets isCalibrating and records a pending request
\* with exactly its refPh, curPh and offset; exactly one publish is issued for
\* it, of that offset, to biogas/ph_offset at QoS 1; and when the publish
\* succeeds the answer is 200 with that same offset.
C9_AcceptedRequestPublishesItsOffset ==
  /\ [](/\ Len(outbox) = Len(cals)
        /\ \A i \in DOMAIN cals :
             LET c == cals[i]
             IN  /\ c.refPh.t = "number" /\ c.curPh.t = "number"
                 /\ c.offset = ExpectedOffset(c)
                 /\ outbox[i].topic = "biogas/ph_offset"
                 /\ outbox[i].qos = 1
                 /\ Get(outbox[i].payload, "offset") = c.offset
                 /\ (c.pub = "acked") =>
                      (c.status = 200 /\ Get(c.data, "offset") = c.offset))
  /\ [][(Len(cals') = Len(cals) + 1) =>
          LET c == cals'[Len(cals')]
              pending == phCalibrationStatus'.pendingCalibration
          IN  /\ lastReq'.status = 0
              /\ c.refPh = lastReq'.referencePh
              /\ c.curPh = lastReq'.currentPh
              /\ phCalibrationStatus'.isCalibrating
              /\ Get(pending, "referencePh") = c.refPh
              /\ Get(pending, "currentPh") = c.curPh
              /\ Get(pending, "offset") = c.offset
              /\ Len(outbox') = Len(outbox) + 1]_vars

\* 7.0000004 and 6.5 give 0.5.
C9_Witness ==
  \E i \in DOMAIN cals :
    /\ cals[i].refPh = Num(70000004)
    /\ cals[i].curPh = Num(65000000)
    /\ cals[i].offset = Num(5000000)
    /\ cals[i].pub = "acked"
    /\ Get(cals[i].data, "offset") = Num(5000000)

\* This step is the failing publish callback of an accepted request.
PublishFails ==
  \E i \in DOMAIN cals : cals[i].pub = "sent" /\ cals'[i].pub = "failed"

\* C10: when the publish of an accepted request fails, isCalibrating is reset,
\* pendingCalibration is cleared and the caller is answered 500; afterwards,
\* with the bus connected and nothing in progress, a new valid calibrate
\* request is accepted.
C10_PublishFailureRollsBack ==
  /\ [][PublishFails =>
          /\ ~phCalibrationStatus'.isCalibrating
          /\ phCalibrationStatus'.pendingCalibration = Null
          /\ \A i \in DOMAIN cals :
               (cals[i].pub = "sent" /\ cals'[i].pub = "failed")
                 => cals'[i].status = 500]_vars
  /\ [][(/\ ValidRequest
         /\ \E i \in DOMAIN cals : cals[i].pub = "failed"
         /\ connected
         /\ ~phCalibrationStatus.isCalibrating)
          => (lastReq'.status = 0 /\ Len(cals') = Len(cals) + 1)]_vars

\* This step is the success callback of accepted request i.
Acknowledged(i) ==
  i \in DOMAIN cals /\ cals[i].pub = "sent" /\ cals'[i].pub = "acked"

Requested == lastReq'.n = lastReq.n + 1

\* The step changes nothing of the calibration state and publishes nothing.
CalibrationUntouched ==
  /\ outbox' = outbox
  /\ cals' = cals
  /\ phCalibrationStatus' = phCalibrationStatus

\* C12: a calibrate request with valid inputs made while the bus connection
\* is down is answered 503, publishes nothing and leaves isCalibrating,
\* pendingCalibration and lastCalibration unchanged.
C12_UnavailableWhileDisconnected ==
  [][(ValidRequest /\ ~connected)
       => (lastReq'.status = 503 /\ CalibrationUntouched)]_vars

\* C13: a calibrate request with a field that is missing or does not parse as
\* a finite number (an infinite value included) is answered 400, publishes
\* nothing and leaves the calibration state unchanged.
C13_InvalidInputIsRejected ==
  [][(Requested /\ (~ValidPh(lastReq'.referencePh) \/ ~ValidPh(lastReq'.currentPh)))
       => (lastReq'.status = 400 /\ CalibrationUntouched)]_vars

\* C14: a calibrate request whose two fields are present and parse as finite
\* numbers, 0 included, is not answered 400; with the bus connected and no
\* calibration in progress it is accepted.
C14_FiniteInputsAreAccepted ==
  [][ValidRequest
       => /\ lastReq'.status # 400
          /\ (connected /\ ~phCalibrationStatus.isCalibrating)
               => (lastReq'.status = 0 /\ Len(cals') = Len(cals) + 1)]_vars

\* The step leaves the correlation id, the warmup flag, the calibration state
\* and the store as they were, and publishes nothing.
ProcessStateUntouched ==
  /\ currentSensorId' = currentSensorId
  /\ isWarmupActive' = isWarmupActive
  /\ sensorRows' = sensorRows
  /\ CalibrationUntouched

\* C15: a message with malformed JSON, on any topic, ends its handler at once
\* with the error caught: no persistence call is ever issued for it and the
\* step changes neither currentSensorId, isWarmupActive nor the calibration
\* state; a well-formed sensors message is handled as usual whatever was
\* dropped before it.
C15_MalformedMessageIsDropped ==
  /\ [][(Delivered /\ ~NewestHandler.wellFormed)
          => /\ NewestHandler.pc = "done"
             /\ NewestHandler.outcome \in {"parse_error", "caught"}
             /\ ProcessStateUntouched]_vars
  /\ [](\A i \in DOMAIN handlers :
          LET h == handlers[i]
          IN  /\ ~h.wellFormed => (h.calls = <<>> /\ h.pc = "done")
              /\ h.outcome # "escaped"
              /\ (h.wellFormed /\ h.topic = TopicSensors /\ ~h.warmAtStart
                    /\ CanRead(h.payload) /\ IsObject(Get(h.payload, "sensors")))
                   => InsertsInto(h, "sensors") = {1})

\* A message dropped on the response topic during a calibration, followed by
\* a sensors message whose insert succeeded.
C15_Witness ==
  /\ Len(handlers) = 2
  /\ ~handlers[1].wellFormed /\ handlers[1].topic = TopicResponse
  /\ phCalibrationStatus.isCalibrating
  /\ handlers[2].wellFormed /\ handlers[2].topic = TopicSensors
  /\ handlers[2].sensorResult = "ok" /\ handlers[2].pc = "done"

\* C16: a well-formed message on a topic other than the recognized ones ends
\* its handler at once: no persistence call is ever issued for it and the
\* step changes neither currentSensorId, isWarmupActive nor the calibration
\* state.
C16_UnknownTopicIsDropped ==
  /\ [][(/\ Delivered
         /\ NewestHandler.wellFormed
         /\ NewestHandler.topic \notin {TopicSensors, TopicControl, TopicResponse})
          => /\ NewestHandler.pc = "done"
             /\ NewestHandler.outcome = "unknown_topic"
             /\ ProcessStateUntouched]_vars
  /\ [](\A i \in DOMAIN handlers :
          (/\ handlers[i].wellFormed
           /\ handlers[i].topic \notin {TopicSensors, TopicControl, TopicResponse})
            => (handlers[i].calls = <<>> /\ handlers[i].pc = "done"))

\* Unrecognized-topic messages whose payloads would store a reading and end
\* a calibration on their own topics.
C16_Witness ==
  /\ Len(handlers) = 2
  /\ phCalibrationStatus.isCalibrating
  /\ \A i \in {1, 2} : handlers[i].wellFormed /\ handlers[i].topic = TopicOther
  /\ handlers[1].payload = BothSensors
  /\ handlers[2].payload = Obj([success |-> Bool(TRUE)])

\* A control-topic message carrying system.warmup_active.
CarriesWarmup(h) ==
  /\ h.topic = TopicControl
  /\ h.wellFormed
  /\ CanRead(h.payload)
  /\ IsObject(Get(h.payload, "system"))
  /\ "warmup_active" \in DOMAIN Get(h.payload, "system").f

\* The value is the number 1.
IsLiteralOne(v) == v.t = "number" /\ v.n = 10000000

\* C17: a control-topic message carrying system.warmup_active sets
\* isWarmupActive to true exactly when the value is the number 1, before its
\* actuators are considered: with the value 1 no call is issued for the
\* message, with any other value and `actuators` the message is processed as
\* not in warmup (its query or its actuators insert is issued).
C17_WarmupUpdateComesFirst ==
  [][(Delivered /\ CarriesWarmup(NewestHandler))
       => LET h == NewestHandler
              v == Get(Get(h.payload, "system"), "warmup_active")
          IN  /\ isWarmupActive' = IsLiteralOne(v)
              /\ IsLiteralOne(v) => (h.calls = <<>> /\ h.pc = "done")
              /\ (~IsLiteralOne(v) /\ IsObject(Get(h.payload, "actuators")))
                   => (Len(h.calls) = 1
                       /\ h.pc \in {"await_query", "await_actuator"})]_vars

\* Warmup turned on by the value 1, then a message with the value true and
\* `actuators`: the flag is off again and the actuators are processed.
C17_Witness ==
  /\ Len(handlers) = 2
  /\ CarriesWarmup(handlers[1])
  /\ IsLiteralOne(Get(Get(handlers[1].payload, "system"), "warmup_active"))
  /\ IsObject(Get(handlers[1].payload, "actuators"))
  /\ handlers[1].calls = <<>>
  /\ CarriesWarmup(handlers[2])
  /\ handlers[2].warmAtStart
  /\ Get(Get(handlers[2].payload, "system"), "warmup_active") = Bool(TRUE)
  /\ InsertsInto(handlers[2], "actuators") # {}
  /\ ~isWarmupActive

\* This step delivers a well-formed message on the response topic.
ResponseDelivered ==
  Delivered /\ NewestHandler.wellFormed /\ NewestHandler.topic = TopicResponse

\* C18: processing a calibration-response message resets isCalibrating and
\* sets lastCalibration to a record of the payload, a timestamp and a success
\* flag that is true exactly when payload.success is truthy or payload.status
\* is 'success', for every JSON payload.
C18_ResponseIsRecorded ==
  [][ResponseDelivered
       => LET p == NewestHandler.payload
              last == phCalibrationStatus'.lastCalibration
          IN  /\ ~phCalibrationStatus'.isCalibrating
              /\ IsObject(last)
              /\ Get(last, "response") = p
              /\ Get(last, "timestamp") # Undefined
              /\ Truthy(Get(last, "success"))
                   <=> (CanRead(p) /\ (Truthy(Get(p, "success"))
                                        \/ Get(p, "status") = Success))]_vars

\* This step is the return of the calibration_logs insert of handler i.
LogReturned(i) ==
  i \in DOMAIN handlers /\ handlers[i].pc = "await_log" /\ handlers'[i].pc = "done"

\* C19: whatever the calibration_logs insert returns (success, store error or
\* exception), the handler ends without an escaping error and isCalibrating
\* and lastCalibration (the whole calibration state) stay as the response
\* left them.
C19_LogFailureIsNotPropagated ==
  [][\A i \in DOMAIN handlers :
       LogReturned(i)
         => /\ handlers'[i].outcome \in {"handled", "log_failed"}
            /\ CalibrationUntouched]_vars

\* A response recorded during a calibration whose log insert failed.
C19_Witness ==
  \E i \in DOMAIN handlers :
    /\ handlers[i].outcome = "log_failed"
    /\ ~phCalibrationStatus.isCalibrating
    /\ Get(phCalibrationStatus.lastCalibration, "response") = handlers[i].payload
    /\ phCalibrationStatus.pendingCalibration # Null

\* What sanitize is to return for the field values above, in units of 10^-7:
\* 0 for a missing, null or non-numeric value, the value rounded to 6
\* decimals for a number and for a string that is read as one.
SanitizeExpected(x) ==
  CASE x = Num(70000004) -> 70000000
    [] x = Num(70000006) -> 70000010
    [] x = Num(-24) -> -20
    [] x = Num(-26) -> -30
    [] x = Num(355000000) -> 355000000
    [] x = Str(<<"3", "5", ".", "5">>) -> 355000000
    [] x = Str(<<" ", "-", ".", "5">>) -> -5000000
    [] x = Str(<<"7", ".", "0", "0", "0", "0", "0", "0", "6">>) -> 70000010
    [] x = Str(<<"3", "5", ".", "5", "C">>) -> 355000000
    [] OTHER -> 0

\* The ph field of the sensors mapping handler h received.
PhField(h) == Get(Get(h.payload, "sensors"), "ph")

C21_SanitizeIsIdempotent ==
  \A i \in DOMAIN handlers :
    /\ Len(handlers[i].calls) = 1
    /\ sanitizeFloatValue(handlers[i].calls[1].rec.ph) = handlers[i].calls[1].rec.ph
    /\ \A j \in DOMAIN handlers :
         PhField(handlers[i]) = PhField(handlers[j])
           => handlers[i].calls[1].rec.ph = handlers[j].calls[1].rec.ph

\* The same value with a 7th decimal received twice, rounded both times.
C21_Witness ==
  /\ Len(handlers) = 2
  /\ \A i \in {1, 2} :
       /\ PhField(handlers[i]) = Num(70000006)
       /\ handlers[i].calls[1].rec.ph = Num(70000010)

\* The mapping of handler h's payload that an insert into `table` is built from.
MappingFor(h, table) ==
  CASE table = "sensors" -> Get(h.payload, "sensors")
    [] table = "sensor_errors" -> Get(h.payload, "sensor_errors")
    [] table = "actuators" -> Get(h.payload, "actuators")

\* The fixed field set of each store's record.
FieldSet(table) ==
  CASE table = "sensors" -> {"ph", "temp", "ch4", "pressure"}
    [] table = "sensor_errors" ->
         {"ph_error", "ph_delta_error", "temp_error", "temp_delta_error"}
    [] table = "actuators" ->
         {"pump_base", "pump_acid", "heater", "solenoid", "stirrer"}

\* The inserts handler h issued, as the positions of its calls.
Inserts(h) == {k \in DOMAIN h.calls : h.calls[k].op = "insert"}

\* C22: every record handed to an insert on sensors, sensor_errors or
\* actuators has each field of its fixed field set defined and holding a
\* finite number, whatever the payload.
C22_InsertedFieldsAreFinite ==
  \A i \in DOMAIN handlers : \A k \in Inserts(handlers[i]) :
    LET c == handlers[i].calls[k]
    IN  c.table \in {"sensors", "sensor_errors", "actuators"}
          => /\ FieldSet(c.table) \subseteq DOMAIN c.rec
             /\ \A f \in FieldSet(c.table) : c.rec[f].t = "number"

\* C23: given a keyed mapping, the validators return exactly their fixed
\* field set; a field missing from the mapping is 0 and a field outside the
\* set does not appear.
C23_ValidatedRecordHasFixedFields ==
  \A i \in DOMAIN handlers : \A k \in Inserts(handlers[i]) :
    LET c == handlers[i].calls[k]
        m == MappingFor(handlers[i], c.table)
    IN  IsObject(m)
          => /\ DOMAIN c.rec = FieldSet(c.table)
             /\ \A f \in FieldSet(c.table) :
                  f \notin DOMAIN m.f => c.rec[f] = Num(0)

\* {} stored as four zeros, and a mapping with an unknown field stored
\* without it.
C23_Witness ==
  \E i, j \in DOMAIN handlers :
    /\ Get(handlers[i].payload, "sensors") = Obj(NoProps)
    /\ handlers[i].calls[1].rec =
         [ph |-> Num(0), temp |-> Num(0), ch4 |-> Num(0), pressure |-> Num(0)]
    /\ "fan" \in DOMAIN Get(handlers[j].payload, "actuators").f
    /\ InsertsInto(handlers[j], "actuators") # {}

\* C24: a `sensors`, `sensor_errors` or `actuators` value that is not a keyed
\* mapping (null, a number, a string, a list) fails validation: no insert
\* built from it is issued, and the handler ends without an escaping error.
C24_NonMappingIsNotInserted ==
  \A i \in DOMAIN handlers :
    LET h == handlers[i]
    IN  /\ h.outcome # "escaped"
        /\ \A k \in Inserts(h) : IsObject(MappingFor(h, h.calls[k].table))

Stores == {"sensors", "sensor_errors", "actuators", "calibration_logs"}

\* C26: for one message at most one insert is issued per store and at most
\* one latest-id query, and a handler that has ended (also after a failed
\* call) never issues anything again.
C26_NoRetries ==
  /\ [](\A i \in DOMAIN handlers :
          /\ \A t \in Stores : Cardinality(InsertsInto(handlers[i], t)) <= 1
          /\ Cardinality(Queries(handlers[i])) <= 1)
  /\ [][\A i \in DOMAIN handlers :
          handlers[i].pc = "done" => handlers'[i] = handlers[i]]_vars

\* A failed sensors insert and a latest-id query that found nothing, each the
\* only call of its message.
C26_Witness ==
  \E i, j \in DOMAIN handlers :
    /\ handlers[i].sensorResult \in {"error", "exception"}
    /\ handlers[i].pc = "done" /\ Len(handlers[i].calls) = 1
    /\ Queries(handlers[j]) = {1}
    /\ handlers[j].pc = "done" /\ Len(handlers[j].calls) = 1

\* C27: the handler of a message starts only after the handlers of all
\* earlier messages have finished.
C27_OneMessageAtATime ==
  \A i, j \in DOMAIN handlers : i < j => handlers[i].pc = "done"

\* The handlers whose sensors insert succeeded.
Stored == {i \in DOMAIN handlers : handlers[i].sensorResult = "ok"}

\* The latest of them in arrival order.
LatestStored == CHOOSE i \in Stored : \A j \in Stored : j <= i

\* C28: whenever no sensors insert is outstanding, currentSensorId is absent
\* when no sensors insert has succeeded, and otherwise the id returned to the
\* latest message whose sensors insert succeeded.
C28_LatestReadingWins ==
  (\A i \in DOMAIN handlers : handlers[i].pc # "await_sensor")
    => IF Stored = {} THEN currentSensorId = 0
       ELSE currentSensorId = handlers[LatestStored].calls[1].ret

\* C29: pendingCalibration is recorded only while isCalibrating is true.
C29_PendingOnlyWhileInProgress ==
  phCalibrationStatus.pendingCalibration # Null
    => phCalibrationStatus.isCalibrating

\* This step answers a read of the calibration status.
StatusRead == statusReply'.n = statusReply.n + 1

\* C25: a read of the calibration status returns isCalibrating,
\* lastCalibration, pendingCalibration and the connection state as they are
\* and changes none of them nor anything else, in any state and however
\* often it is repeated.
C25_StatusReadIsPure ==
  [][StatusRead
       => /\ Get(statusReply'.data, "isCalibrating")
               = Bool(phCalibrationStatus.isCalibrating)
          /\ Get(statusReply'.data, "lastCalibration")
               = phCalibrationStatus.lastCalibration
          /\ Get(statusReply'.data, "pendingCalibration")
               = phCalibrationStatus.pendingCalibration
          /\ Get(statusReply'.data, "mqttConnected") = Bool(connected)
          /\ UNCHANGED <<connected, subs, ingestVars, handlers, calVars, hostVars>>]_vars

\* A second read, during a calibration with the bus down.
C25_Witness ==
  /\ statusReply.n = 2
  /\ Get(statusReply.data, "isCalibrating") = Bool(TRUE)
  /\ Get(statusReply.data, "pendingCalibration") # Null
  /\ Get(statusReply.data, "mqttConnected") = Bool(FALSE)
  /\ phCalibrationStatus.isCalibrating
  /\ phCalibrationStatus.pendingCalibration # Null

C31_CloseCompletesBeforeExit ==
  exitedOn # "none" => clientEnd = "completed"

\* This step is the publish callback of request i running with an error.
PublishFailure(i) ==
  /\ i \in DOMAIN cals
  /\ cals[i].pub = "sent"
  /\ cals'[i].pub = "failed"

\* C32: when the publish of a request fails after a response has cleared that
\* request and a later request has been accepted, the rollback leaves
\* isCalibrating and pendingCalibration, which belong to the later request, as
\* they are.
C32_RollbackSparesLaterRequest ==
  [][\A i \in DOMAIN cals :
       (/\ PublishFailure(i)
        /\ cals[i].answered
        /\ \E j \in DOMAIN cals : j > i /\ InFlight(cals[j]))
         => /\ phCalibrationStatus'.isCalibrating = phCalibrationStatus.isCalibrating
            /\ phCalibrationStatus'.pendingCalibration
                 = phCalibrationStatus.pendingCalibration]_vars

\* This step processes a calibration-response message.
ResponseProcessed ==
  Delivered /\ NewestHandler.topic = TopicResponse /\ NewestHandler.wellFormed

\* C33: isCalibrating, true since the latest request was accepted, becomes
\* false only in a step that processes a calibration-response message or in
\* the failed publish callback of that latest accepted request.
C33_FlagClearedOnlyByResponseOrOwnFailure ==
  [][(phCalibrationStatus.isCalibrating /\ ~phCalibrationStatus'.isCalibrating)
       => (ResponseProcessed \/ PublishFailure(Len(cals)))]_vars

\* The calibration_logs inserts that carry the readings of a request.
LogsCarryingRequest ==
  {ik \in (DOMAIN handlers) \X (1..2) :
     /\ ik[2] \in InsertsInto(handlers[ik[1]], "calibration_logs")
     /\ handlers[ik[1]].calls[ik[2]].rec.reference_ph # Null}

\* C34: there are never more calibration_logs inserts carrying the readings
\* of a request than accepted requests, so no accepted request is logged
\* twice, whatever responses arrive and whenever they arrive.
C34_OneLogPerRequest ==
  Cardinality(LogsCarryingRequest) <= Len(cals)

\* C35: when a response is processed while a request is pending, the
\* calibration_logs entry it writes records that request's offset,
\* reference_ph and current_ph, an offset of 0 included.
C35_LogRecordsTheRequest ==
  [][(/\ ResponseProcessed
      /\ phCalibrationStatus.isCalibrating
      /\ phCalibrationStatus.pendingCalibration # Null)
       => \A k \in InsertsInto(NewestHandler, "calibration_logs") :
            LET rec == NewestHandler.calls[k].rec
                pending == phCalibrationStatus.pendingCalibration
            IN  /\ rec.offset_value = Get(pending, "offset")
                /\ rec.reference_ph = Get(pending, "referencePh")
                /\ rec.current_ph = Get(pending, "currentPh")]_vars

\* This step answers a read of the warmup status.
WarmupRead == warmupReply'.n = warmupReply.n + 1

\* C36: every answer of /api/warmup-status, /health, /api/status and /debug
\* reports the value the warmup flag of the ingestion pipeline has at that
\* moment, after any sequence of control messages.
C36_ReportedWarmupIsCurrent ==
  [][WarmupRead => warmupReply'.warmup_active = isWarmupActive]_vars

\* C37: in the calibrate endpoint built on publishPhOffset, a request whose
\* offset publish the bus client reports as failed is answered 500 and not
\* with the success response.
C37_FailedPublishIsAnswered500 ==
  \A i \in DOMAIN offsetReqs :
    offsetReqs[i].pub = "failed" => offsetReqs[i].status = 500

====
